---- MODULE Spec2Model ----
(***************************************************************************)
(* youtube-mcp-server: the schema registry (load_tool_schemas), the tool   *)
(* dispatch (handle_list_tools, handle_call_tool), the three handlers      *)
(* (search_videos, get_videos, get_transcript) and the input/output        *)
(* validators of the test harness.                                         *)
(*                                                                         *)
(* Python values are records [type, val]; a Python str is a sequence of    *)
(* one-character strings, so that strip() is a real operation.             *)
(***************************************************************************)
EXTENDS Integers, Sequences, FiniteSets, TLC

VARIABLES
    fs,              \* the two tools.json locations: [package, cwd]
    TOOL_FUNCTIONS,  \* handler registry: tool name -> handler id
    phase,           \* "init" | "serving" | "crashed" (import of server.py)
    TOOL_SCHEMAS,    \* schema registry: ordered dict, a sequence of entries
    log,             \* records written with logger.error
    listed,          \* answer of the last handle_list_tools call
    inv              \* the last handle_call_tool invocation

vars == <<fs, TOOL_FUNCTIONS, phase, TOOL_SCHEMAS, log, listed, inv>>

\* Longest candidate track list of the transcript source that is explored.
MaxTracks == 3

\* Most logger.error records that are followed.
MaxLog == 3

\* the largest number of ids get_videos accepts
MaxVideoIds == 50

-----------------------------------------------------------------------------
\* Python values

None == [type |-> "null", val |-> <<>>]
PyStr(s) == [type |-> "string", val |-> s]
PyInt(n) == [type |-> "integer", val |-> <<n>>]
PyList(xs) == [type |-> "array", val |-> xs]

IsNone(v) == v.type = "null"
IsStr(v) == v.type = "string"

\* bool(v): None, "", 0 and [] are falsy.
Truthy(v) ==
    CASE v.type = "null" -> FALSE
      [] v.type = "string" -> v.val # <<>>
      [] v.type = "integer" -> v.val[1] # 0
      [] v.type = "array" -> v.val # <<>>
      [] OTHER -> TRUE

\* The characters str.strip() removes: those of str.isspace(). A character
\* that a TLA+ string cannot hold stands as its Python escape.
Whitespace ==
    { " ", "\t", "\n", "\r", "\f", "\\v",
      "\\x1c", "\\x1d", "\\x1e", "\\x1f", "\\x85", "\\xa0",
      "\\u1680", "\\u2000", "\\u2001", "\\u2002", "\\u2003", "\\u2004",
      "\\u2005", "\\u2006", "\\u2007", "\\u2008", "\\u2009", "\\u200a",
      "\\u2028", "\\u2029", "\\u202f", "\\u205f", "\\u3000" }

RECURSIVE LStrip(_)
LStrip(s) ==
    IF s = <<>> THEN s
    ELSE IF Head(s) \in Whitespace THEN LStrip(Tail(s)) ELSE s

RECURSIVE RStrip(_)
RStrip(s) ==
    IF s = <<>> THEN s
    ELSE IF s[Len(s)] \in Whitespace
         THEN RStrip(SubSeq(s, 1, Len(s) - 1)) ELSE s

\* str.strip()
Strip(s) == RStrip(LStrip(s))

EN == <<"e", "n">>
ES == <<"e", "s">>
JA == <<"j", "a">>
FR == <<"f", "r">>
V1 == <<"v", "1">>

-----------------------------------------------------------------------------
\* The tool contract resource and the schema registry

Missing == [state |-> "missing", tools |-> <<>>]
Malformed == [state |-> "malformed", tools |-> <<>>]
\* valid JSON without a "tools" list of named tools
BadShape == [state |-> "badshape", tools |-> <<>>]
WellFormed(tools) == [state |-> "ok", tools |-> tools]

\* the keys of a tool entry that handle_list_tools reads
ToolKeys == {"description", "inputSchema", "outputSchema"}

\* a named tool entry holding the keys in has
PartialTool(n, d, has) == [name |-> n, description |-> d, has |-> has]

Tool(n, d) == PartialTool(n, d, ToolKeys)

ShippedTools ==
    << Tool("search_videos", "d1"), Tool("get_videos", "d1"),
       Tool("get_transcript", "d1") >>

\* The documents a location may hold.
Docs ==
    { Missing, Malformed, BadShape,
      WellFormed(<<>>),
      WellFormed(ShippedTools),
      WellFormed(<< Tool("get_transcript", "d1"), Tool("extra_tool", "d1"),
                    Tool("get_transcript", "d2") >>),
      WellFormed(<< Tool("search_videos", "d1"),
                    PartialTool("get_videos", "d1",
                                {"description", "inputSchema"}),
                    Tool("get_transcript", "d1") >>) }

\* d[k] = v on an insertion-ordered dict: a present key keeps its place.
DictPut(d, e) ==
    IF \E i \in DOMAIN d : d[i].name = e.name
    THEN [i \in DOMAIN d |-> IF d[i].name = e.name THEN e ELSE d[i]]
    ELSE Append(d, e)

RECURSIVE DictOf(_)
\* {tool["name"]: tool for tool in schema_data["tools"]}
DictOf(tools) ==
    IF tools = <<>> THEN <<>>
    ELSE DictPut(DictOf(SubSeq(tools, 1, Len(tools) - 1)), tools[Len(tools)])

Keys(d) == {d[i].name : i \in DOMAIN d}

ParseErrorLog(i) == [msg |-> "Error parsing tools.json", at |-> i]
NotFoundLog ==
    [msg |-> "tools.json file not found in package or working directory",
     at |-> 0]

RECURSIVE LoadFrom(_, _)
\* the loop over the candidate paths, from candidate i on
LoadFrom(candidates, i) ==
    IF i > Len(candidates)
    THEN [value |-> <<>>, log |-> <<NotFoundLog>>, raised |-> "none"]
    ELSE LET d == candidates[i] IN
         CASE d.state = "missing" -> LoadFrom(candidates, i + 1)
           [] d.state = "malformed" ->
                [value |-> <<>>, log |-> <<ParseErrorLog(i)>>, raised |-> "none"]
           [] d.state = "badshape" ->
                [value |-> <<>>, log |-> <<>>, raised |-> "KeyError"]
           [] OTHER ->
                [value |-> DictOf(d.tools), log |-> <<>>, raised |-> "none"]

\* A loader that looks at the package copy only.
load_no_fallback(files) == LoadFrom(<<files.package>>, 1)

load_tool_schemas(files) == LoadFrom(<<files.package, files.cwd>>, 1)

\* handle_list_tools: one Tool per registry entry, in dict order; reading a
\* key that an entry does not hold raises KeyError and nothing is returned
handle_list_tools(schemas) ==
    IF \E i \in DOMAIN schemas : ~(ToolKeys \subseteq schemas[i].has)
    THEN [raised |-> "KeyError", tools |-> <<>>]
    ELSE [raised |-> "none",
          tools |-> [i \in DOMAIN schemas |->
                        [name |-> schemas[i].name,
                         description |-> schemas[i].description]]]

\* handlers.py TOOL_FUNCTIONS: tool name -> handler
ShippedFunctions ==
    [n \in {"search_videos", "get_videos", "get_transcript"} |-> n]


-----------------------------------------------------------------------------
\* Handler outcomes: what the awaited tool function did.

NoValue == [type |-> "none"]

Return(v, n, t) ==
    [kind |-> "return", value |-> v, msg |-> <<>>, effects |-> n, track |-> t]
Raise(m, n) ==
    [kind |-> "raise", value |-> NoValue, msg |-> m, effects |-> n, track |-> 0]

\* kwargs.get(k): every optional parameter of the handlers defaults to None.
Arg(kv, k) == IF k \in DOMAIN kv THEN kv[k] ELSE None

\* `not v or not v.strip()` of the handlers' input checks:
\* "empty" (the check fires), "ok", or "AttributeError" (v has no strip).
BlankCheck(v) ==
    IF ~Truthy(v) THEN "empty"
    ELSE IF ~IsStr(v) THEN "AttributeError"
    ELSE IF Strip(v.val) = <<>> THEN "empty" ELSE "ok"

-----------------------------------------------------------------------------
\* get_transcript and the transcript source

Track(code, gen) == [languageCode |-> code, isGenerated |-> gen]

\* Index of the least element of a non-empty set of indices.
MinOf(S) == CHOOSE i \in S : \A j \in S : i <= j

\* transcript_list.find_transcript([code]): a manually created track of that
\* language, else a generated one; 0 stands for NoTranscriptFound.
find_transcript(tracks, code) ==
    LET man == {i \in DOMAIN tracks :
                   tracks[i].languageCode = code /\ ~tracks[i].isGenerated}
        gen == {i \in DOMAIN tracks :
                   tracks[i].languageCode = code /\ tracks[i].isGenerated}
    IN IF man # {} THEN MinOf(man) ELSE IF gen # {} THEN MinOf(gen) ELSE 0

\* step 3: the first track of the iteration that is not generated, else 0
first_manual(tracks) ==
    LET man == {i \in DOMAIN tracks : ~tracks[i].isGenerated}
    IN IF man # {} THEN MinOf(man) ELSE 0

\* step 4: next(iter(transcript_list)), 0 on StopIteration
first_any(tracks) == IF tracks # <<>> THEN 1 ELSE 0

\* Selection that forgets the English fallback (step 2).
select_no_english(tracks, language) ==
    LET want == IF Truthy(language) /\ Strip(language.val) # <<>>
                THEN find_transcript(tracks, Strip(language.val)) ELSE 0
        s3 == IF want # 0 THEN want ELSE first_manual(tracks)
        s4 == IF s3 # 0 THEN s3 ELSE first_any(tracks)
    IN [track |-> s4,
        code |-> IF want # 0 THEN Strip(language.val)
                 ELSE IF s4 # 0 THEN tracks[s4].languageCode ELSE <<>>]

\* Selection that reports the requested code as it was given.
select_reports_request(tracks, language) ==
    LET want == IF Truthy(language) /\ Strip(language.val) # <<>>
                THEN find_transcript(tracks, Strip(language.val)) ELSE 0
        s2 == IF want # 0 THEN want ELSE find_transcript(tracks, EN)
        s3 == IF s2 # 0 THEN s2 ELSE first_manual(tracks)
        s4 == IF s3 # 0 THEN s3 ELSE first_any(tracks)
    IN [track |-> s4,
        code |-> IF want # 0 THEN language.val
                 ELSE IF s2 # 0 THEN EN
                 ELSE IF s4 # 0 THEN tracks[s4].languageCode ELSE <<>>]

\* get_transcript steps 1 to 4, for a language that is None or a str: the
\* selected track (0 for none) and language_code.
select_transcript(tracks, language) ==
    LET want == IF Truthy(language) /\ Strip(language.val) # <<>>
                THEN find_transcript(tracks, Strip(language.val)) ELSE 0
        s2 == IF want # 0 THEN want ELSE find_transcript(tracks, EN)
        s3 == IF s2 # 0 THEN s2 ELSE first_manual(tracks)
        s4 == IF s3 # 0 THEN s3 ELSE first_any(tracks)
    IN [track |-> s4,
        code |-> IF want # 0 THEN Strip(language.val)
                 ELSE IF s2 # 0 THEN EN
                 ELSE IF s4 # 0 THEN tracks[s4].languageCode ELSE <<>>]

\* float(x): the number is kept, its type becomes float
Float(x) == [num |-> x.num, float |-> TRUE]

\* one entry of formatted_transcript
format_entry(e) ==
    [text |-> e.text, start |-> Float(e.start), duration |-> Float(e.duration)]

\* A handler that returns None where it has no transcript.
Unavailable_none(video_id) == None

Unavailable(video_id) ==
    [type |-> "object", shape |-> "transcript", videoId |-> video_id, transcript |-> <<>>,
     available |-> FALSE, language |-> None]

UnexpectedTranscript(what) ==
    <<"Unexpected error during transcript retrieval: ", what>>

\* Except clauses that let "no transcript found" through as an error.
transcript_except_strict(exc, video_id, n) ==
    CASE exc = "TranscriptsDisabled" -> Return(Unavailable(video_id), n, 0)
      [] exc = "VideoUnavailable" ->
            Raise(<<"Video ", video_id, " is unavailable or does not exist">>, n)
      [] OTHER -> Raise(UnexpectedTranscript(exc), n)

\* Except clauses that answer "video unavailable" like "no transcript".
transcript_except_swallow(exc, video_id, n) ==
    CASE exc \in {"TranscriptsDisabled", "NoTranscriptFound", "VideoUnavailable"} ->
            Return(Unavailable(video_id), n, 0)
      [] OTHER -> Raise(UnexpectedTranscript(exc), n)

\* the handlers' except clauses for an exception class raised by the source
transcript_except(exc, video_id, n) ==
    CASE exc \in {"TranscriptsDisabled", "NoTranscriptFound"} ->
            Return(Unavailable(video_id), n, 0)
      [] exc = "VideoUnavailable" ->
            Raise(<<"Video ", video_id, " is unavailable or does not exist">>, n)
      [] OTHER -> Raise(UnexpectedTranscript(exc), n)

get_transcript(videoId, language, src) ==
    LET chk == BlankCheck(videoId) IN
    IF chk = "empty"
    THEN Raise(<<"videoId parameter is required and cannot be empty">>, 0)
    ELSE IF chk = "AttributeError"
    THEN Raise(<<"object has no attribute 'strip'">>, 0)
    ELSE
    LET video_id == Strip(videoId.val) IN
    IF src.list # "ok" THEN transcript_except(src.list, video_id, 1)
    ELSE IF Truthy(language) /\ ~IsStr(language)
    THEN Raise(UnexpectedTranscript("object has no attribute 'strip'"), 1)
    ELSE
    LET sel == select_transcript(src.tracks, language) IN
    IF sel.track = 0 THEN Return(Unavailable(video_id), 1, 0)
    ELSE IF src.fetch # "ok" THEN transcript_except(src.fetch, video_id, 2)
    ELSE Return([type |-> "object", shape |-> "transcript", videoId |-> video_id,
                 transcript |-> [i \in DOMAIN src.cues |-> format_entry(src.cues[i])],
                 available |-> TRUE, language |-> PyStr(sel.code)],
                2, sel.track)

-----------------------------------------------------------------------------
\* search_videos, get_videos and the video API

Absent == [type |-> "absent", val |-> <<>>]

SNIPPET == <<"s", "n", "i", "p", "p", "e", "t">>
CONTENT_DETAILS == <<"c", "o", "n", "t", "e", "n", "t", "D", "e", "t", "a", "i", "l", "s">>

valid_parts ==
    { <<"s", "n", "i", "p", "p", "e", "t">>,
      <<"c", "o", "n", "t", "e", "n", "t", "D", "e", "t", "a", "i", "l", "s">>,
      <<"s", "t", "a", "t", "i", "s", "t", "i", "c", "s">>,
      <<"s", "t", "a", "t", "u", "s">>,
      <<"p", "l", "a", "y", "e", "r">>,
      <<"r", "e", "c", "o", "r", "d", "i", "n", "g", "D", "e", "t", "a", "i", "l", "s">>,
      <<"f", "i", "l", "e", "D", "e", "t", "a", "i", "l", "s">>,
      <<"p", "r", "o", "c", "e", "s", "s", "i", "n", "g", "D", "e", "t", "a", "i", "l", "s">>,
      <<"s", "u", "g", "g", "e", "s", "t", "i", "o", "n", "s">>,
      <<"l", "i", "v", "e", "S", "t", "r", "e", "a", "m", "i", "n", "g", "D", "e", "t", "a", "i", "l", "s">>,
      <<"l", "o", "c", "a", "l", "i", "z", "a", "t", "i", "o", "n", "s">>,
      <<"t", "o", "p", "i", "c", "D", "e", "t", "a", "i", "l", "s">> }

NoKeyMsg == "YOUTUBE_API_KEY environment variable is required"

\* parse_duration on a duration string given by its parts: whether it is
\* non-empty, whether it starts with PT, and the H, M, S numbers (-1: none).
parse_duration(d) ==
    IF ~d.nonempty \/ ~d.pt THEN 0
    ELSE (IF d.h >= 0 THEN d.h ELSE 0) * 3600
         + (IF d.m >= 0 THEN d.m ELSE 0) * 60
         + (IF d.s >= 0 THEN d.s ELSE 0)

search_videos(query, pageToken, api) ==
    LET chk == BlankCheck(query) IN
    IF chk = "empty"
    THEN Raise(<<"query parameter is required and cannot be empty">>, 0)
    ELSE IF chk = "AttributeError"
    THEN Raise(<<"object has no attribute 'strip'">>, 0)
    ELSE IF ~api.key
    THEN Raise(<<"Unexpected error during video search: ", NoKeyMsg>>, 0)
    ELSE IF api.outcome = "http_error"
    THEN Raise(<<"YouTube API error: ", "quota">>, 1)
    ELSE IF \E i \in DOMAIN api.items : ~api.items[i].keyed
    THEN Raise(<<"Unexpected error during video search: ", "KeyError">>, 1)
    ELSE Return(
           [type |-> "object", shape |-> "search",
            items |-> [i \in DOMAIN api.items |->
                          [id |-> "video", snippet |-> api.items[i].snippet]],
            pageInfo |-> [totalResults |-> api.total,
                          resultsPerPage |-> Len(api.items)],
            nextPageToken |-> IF Truthy(api.next) THEN api.next ELSE Absent,
            prevPageToken |-> IF Truthy(api.prev) THEN api.prev ELSE Absent,
            sentPageToken |-> IF Truthy(pageToken) THEN pageToken ELSE Absent],
           1, 0)

\* iterating a str yields its characters, iterating a list its elements
Elements(v) ==
    IF v.type = "string" THEN [i \in DOMAIN v.val |-> PyStr(<<v.val[i]>>)]
    ELSE v.val

get_videos(ids, parts, api) ==
    IF ~Truthy(ids)
    THEN Raise(<<"ids parameter is required and cannot be empty">>, 0)
    ELSE IF ids.type = "integer"
    THEN Raise(<<"object of type 'int' has no len()">>, 0)
    ELSE IF Len(ids.val) > MaxVideoIds
    THEN Raise(<<"Maximum 50 video IDs allowed per request">>, 0)
    ELSE IF \E i \in DOMAIN Elements(ids) :
               BlankCheck(Elements(ids)[i]) # "ok"
    THEN Raise(<<"All video IDs must be non-empty strings">>, 0)
    ELSE
    LET ps == IF IsNone(parts) THEN PyList(<<PyStr(SNIPPET)>>) ELSE parts IN
    IF ps.type = "integer"
    THEN Raise(<<"'int' object is not iterable">>, 0)
    \* set(parts): an element that is a list cannot be hashed
    ELSE IF \E i \in DOMAIN Elements(ps) : Elements(ps)[i].type = "array"
    THEN Raise(<<"unhashable type: 'list'">>, 0)
    ELSE IF \E i \in DOMAIN Elements(ps) :
               ~(IsStr(Elements(ps)[i]) /\ Elements(ps)[i].val \in valid_parts)
    THEN Raise(<<"Invalid parts">>, 0)
    ELSE IF ~api.key
    THEN Raise(<<"Unexpected error during video retrieval: ", NoKeyMsg>>, 0)
    ELSE IF api.outcome = "http_error"
    THEN Raise(<<"YouTube API error: ", "quota">>, 1)
    ELSE
    LET wantsDetails == ps.type = "array" /\
            \E i \in DOMAIN ps.val : ps.val[i].val = CONTENT_DETAILS
        video(v) ==
            [snippet |-> v.snippet,
             durationSeconds |->
                IF wantsDetails /\ v.hasDetails /\ v.hasDuration
                THEN PyInt(parse_duration(v.duration)) ELSE Absent]
    IN Return(
           [type |-> "object", shape |-> "videos",
            items |-> [i \in DOMAIN api.items |-> video(api.items[i])],
            pageInfo |-> [totalResults |-> Len(api.items),
                          resultsPerPage |-> Len(api.items)]],
           1, 0)

-----------------------------------------------------------------------------
\* The declared contracts (tools.json) and the validators of the test harness

\* inputSchema of a tool: the type of each property and the required ones
InputSchema(tool) ==
    CASE tool = "search_videos" ->
            [properties |-> [query |-> "string", pageToken |-> "string"],
             required |-> {"query"}]
      [] tool = "get_videos" ->
            [properties |-> [ids |-> "strings", parts |-> "strings"],
             required |-> {"ids"}]
      [] OTHER ->
            [properties |-> [videoId |-> "string", language |-> "string"],
             required |-> {"videoId"}]

\* a value against a property type ("strings": an array of strings)
TypeMatches(v, t) ==
    IF t = "string" THEN IsStr(v)
    ELSE v.type = "array" /\ \A i \in DOMAIN v.val : IsStr(v.val[i])

\* validate_input_schema: the registry must hold the tool and its entry an
\* inputSchema; required properties must be present, declared properties
\* must have their type; others are accepted.
validate_input_schema(tool, kv, schemas) ==
    /\ tool \in Keys(schemas)
    /\ \E i \in DOMAIN schemas :
          schemas[i].name = tool /\ "inputSchema" \in schemas[i].has
    /\ InputSchema(tool).required \subseteq DOMAIN kv
    /\ \A k \in DOMAIN kv \cap DOMAIN InputSchema(tool).properties :
          TypeMatches(kv[k], InputSchema(tool).properties[k])

\* validate_output_schema: the first tool of that name in the document must
\* hold an outputSchema, and the result is validated against it; data passed
\* through from the video API conforms or not as the API sent it.
validate_output_schema(tool, v, full_schema_data) ==
    /\ \E i \in DOMAIN full_schema_data.tools :
          /\ full_schema_data.tools[i].name = tool
          /\ \A j \in 1..(i - 1) : full_schema_data.tools[j].name # tool
          /\ "outputSchema" \in full_schema_data.tools[i].has
    /\ v.type = "object"
    /\ CASE v.shape = "search" ->
              /\ \A i \in DOMAIN v.items : v.items[i].snippet.conforms
              /\ v.pageInfo.totalResults.type = "integer"
         [] v.shape = "videos" ->
              \A i \in DOMAIN v.items : v.items[i].snippet.conforms
         [] OTHER -> TRUE

-----------------------------------------------------------------------------
\* Dispatch

Required(h) ==
    CASE h = "search_videos" -> {"query"}
      [] h = "get_videos" -> {"ids"}
      [] h = "get_transcript" -> {"videoId"}
      [] OTHER -> {}

Optional(h) ==
    CASE h = "search_videos" -> {"pageToken"}
      [] h = "get_videos" -> {"parts"}
      [] h = "get_transcript" -> {"language"}
      [] OTHER -> {}

\* tool_function(**arguments) binds, or raises TypeError before the body runs
Binds(h, kv) ==
    /\ Required(h) \subseteq DOMAIN kv
    /\ DOMAIN kv \subseteq Required(h) \cup Optional(h)

\* await tool_function(**arguments), once the arguments are bound
Invoke(h, kv, env) ==
    CASE h = "search_videos" ->
            search_videos(Arg(kv, "query"), Arg(kv, "pageToken"), env.api)
      [] h = "get_videos" ->
            get_videos(Arg(kv, "ids"), Arg(kv, "parts"), env.api)
      [] h = "get_transcript" ->
            get_transcript(Arg(kv, "videoId"), Arg(kv, "language"), env.src)

\* What one run of handle_call_tool did: the terminal state, the steps taken,
\* the number of handler calls and of requests sent out by the handler,
\* whether the handler raised (hmsg: its message) or returned (returned: its
\* value), and what the caller gets: result on DONE, error on REJECTED.
\* logged: the logger.error records the run wrote.
Outcome(st, stages, calls, effects, raised, hmsg, returned, result, error, track, logged) ==
    [state |-> st, stages |-> stages, calls |-> calls, effects |-> effects,
     raised |-> raised, hmsg |-> hmsg, returned |-> returned,
     result |-> result, error |-> error, track |-> track, logged |-> logged]

ExecutionError(m) == <<"Tool execution error: ">> \o m

\* logger.error(f"Error calling tool {name}: {e}"): the record's kind; the
\* name and the exception are those of the run that wrote it
CallErrorLog == [msg |-> "Error calling tool", at |-> 0]

\* A dispatcher that calls the handler a second time when it raised.
handle_call_tool_retry(name, arguments, functions, env) ==
    IF name \notin DOMAIN functions
    THEN Outcome("REJECTED", <<"lookup">>, 0, 0, FALSE, <<>>, NoValue, NoValue,
                 <<"Unknown tool: ", name>>, 0, <<>>)
    ELSE
    LET kv == IF arguments.present THEN arguments.kv ELSE <<>>
        h == functions[name]
    IN IF ~Binds(h, kv)
       THEN Outcome("REJECTED", <<"lookup", "bind">>, 0, 0, FALSE, <<>>, NoValue,
                    NoValue, ExecutionError(<<"TypeError">>), 0,
                    <<CallErrorLog>>)
       ELSE LET r == Invoke(h, kv, env) IN
            IF r.kind = "raise"
            THEN Outcome("REJECTED", <<"lookup", "bind", "handler", "handler">>,
                         2, 2 * r.effects, TRUE, r.msg, NoValue, NoValue,
                         ExecutionError(r.msg), 0,
                         <<CallErrorLog>>)
            ELSE Outcome("DONE", <<"lookup", "bind", "handler">>, 1, r.effects,
                         FALSE, <<>>, r.value, r.value, <<>>, r.track, <<>>)

\* tools/call: lookup in TOOL_FUNCTIONS, arguments or {}, one awaited call
\* of the handler, its result returned or its exception wrapped.
handle_call_tool(name, arguments, functions, env) ==
    IF name \notin DOMAIN functions
    THEN Outcome("REJECTED", <<"lookup">>, 0, 0, FALSE, <<>>, NoValue, NoValue,
                 <<"Unknown tool: ", name>>, 0, <<>>)
    ELSE
    LET kv == IF arguments.present THEN arguments.kv ELSE <<>>
        h == functions[name]
    IN IF ~Binds(h, kv)
       THEN Outcome("REJECTED", <<"lookup", "bind">>, 0, 0, FALSE, <<>>, NoValue,
                    NoValue, ExecutionError(<<"TypeError">>), 0,
                    <<CallErrorLog>>)
       ELSE LET r == Invoke(h, kv, env) IN
            IF r.kind = "raise"
            THEN Outcome("REJECTED", <<"lookup", "bind", "handler">>, 1,
                         r.effects, TRUE, r.msg, NoValue, NoValue,
                         ExecutionError(r.msg), 0,
                         <<CallErrorLog>>)
            ELSE Outcome("DONE", <<"lookup", "bind", "handler">>, 1, r.effects,
                         FALSE, <<>>, r.value, r.value, <<>>, r.track, <<>>)

-----------------------------------------------------------------------------
\* Inputs: what the callers send and what the outside world answers

Args(kv) == [present |-> TRUE, kv |-> kv]
NoArgs == [present |-> FALSE, kv |-> <<>>]

Duration(ne, pt, h, m, s) == [nonempty |-> ne, pt |-> pt, h |-> h, m |-> m, s |-> s]

\* an item of a video API response
Item(keyed, ok, det, dur, d) ==
    [keyed |-> keyed, snippet |-> [conforms |-> ok], hasDetails |-> det,
     hasDuration |-> dur, duration |-> d]

Api(key, outcome, items, total, next) ==
    [key |-> key, outcome |-> outcome, items |-> items, total |-> total,
     next |-> next, prev |-> None]

DefaultApi == Api(TRUE, "ok", <<>>, PyInt(0), None)

ApiEnvs ==
    { DefaultApi,
      Api(FALSE, "ok", <<>>, PyInt(0), None),
      Api(TRUE, "http_error", <<>>, PyInt(0), None),
      Api(TRUE, "ok", <<Item(TRUE, TRUE, FALSE, FALSE, Duration(FALSE, FALSE, -1, -1, -1))>>,
          PyInt(1), PyStr(<<"t">>)),
      Api(TRUE, "ok", <<Item(TRUE, FALSE, FALSE, FALSE, Duration(FALSE, FALSE, -1, -1, -1))>>,
          PyInt(1), None),
      Api(TRUE, "ok", <<Item(FALSE, TRUE, FALSE, FALSE, Duration(FALSE, FALSE, -1, -1, -1))>>,
          PyInt(1), None),
      Api(TRUE, "ok", <<Item(TRUE, TRUE, TRUE, TRUE, Duration(TRUE, TRUE, 1, 2, 30))>>,
          PyInt(1), None),
      Api(TRUE, "ok", <<Item(TRUE, TRUE, TRUE, TRUE, Duration(TRUE, FALSE, 1, -1, -1))>>,
          PyInt(1), None) }

Num(n, f) == [num |-> n, float |-> f]
Cue(t, s, d) == [text |-> t, start |-> s, duration |-> d]

Source(list, tracks, fetch, cues) ==
    [list |-> list, tracks |-> tracks, fetch |-> fetch, cues |-> cues]

DefaultSrc == Source("ok", <<>>, "ok", <<>>)

SourceErrors ==
    {"TranscriptsDisabled", "NoTranscriptFound", "VideoUnavailable", "OtherError"}

Languages == {EN, ES, JA}
Tracks == {Track(c, g) : c \in Languages, g \in BOOLEAN}

\* every candidate list of at most n tracks
TrackLists(n) == UNION {[1..k -> Tracks] : k \in 0..n}

CueLists ==
    { <<>>,
      << Cue("hello", Num(0, FALSE), Num(2, TRUE)),
         Cue("world", Num(2, TRUE), Num(3, FALSE)) >> }

\* the transcript source as the dispatch runs see it
SmallSources ==
    {Source(e, <<>>, "ok", <<>>) : e \in SourceErrors}
    \cup {Source("ok", t, f, <<Cue("hello", Num(0, FALSE), Num(2, TRUE))>>) :
            t \in { <<>>, <<Track(EN, TRUE), Track(ES, FALSE)>>,
                    <<Track(JA, FALSE), Track(ES, TRUE)>> },
            f \in {"ok"} \cup SourceErrors}

\* the transcript source in full, for the runs of get_transcript
AllSources ==
    {Source(e, <<>>, "ok", <<>>) : e \in SourceErrors}
    \cup {Source("ok", t, "ok", c) : t \in TrackLists(MaxTracks), c \in CueLists}
    \cup {Source("ok", t, f, <<>>) : t \in TrackLists(1), f \in SourceErrors}

Env(api, src) == [api |-> api, src |-> src]
DefaultEnv == Env(DefaultApi, DefaultSrc)

\* what the handler of a call can meet
Envs(h) ==
    CASE h \in {"search_videos", "get_videos"} ->
            {Env(a, DefaultSrc) : a \in ApiEnvs}
      [] h = "get_transcript" ->
            {Env(DefaultApi, x) : x \in SmallSources}
      [] OTHER -> {DefaultEnv}

CATS == <<"c", "a", "t", "s">>
ManyIds == [i \in 1..(MaxVideoIds + 1) |-> PyStr(V1)]

\* the argument mappings sent with a tool name
ArgCases(name) ==
    CASE name = "search_videos" ->
            << NoArgs, Args(<<>>),
               Args([query |-> PyStr(CATS)]),
               Args([query |-> PyStr(<<" ">>)]),
               Args([query |-> PyStr(<<"\t", " ", "\n">>)]),
               Args([query |-> PyInt(5)]),
               Args([query |-> PyStr(CATS), pageToken |-> PyStr(<<"t">>)]),
               Args([query |-> PyStr(CATS), limit |-> PyInt(5)]) >>
      [] name = "get_videos" ->
            << NoArgs,
               Args([ids |-> PyList(<<PyStr(V1)>>)]),
               Args([ids |-> PyList(<<>>)]),
               Args([ids |-> PyStr(V1)]),
               Args([ids |-> PyInt(5)]),
               Args([ids |-> PyList(<<PyStr(V1), PyStr(<<" ">>)>>)]),
               Args([ids |-> PyList(ManyIds)]),
               Args([ids |-> PyList(<<PyStr(V1)>>),
                     parts |-> PyList(<<PyStr(SNIPPET), PyStr(CONTENT_DETAILS)>>)]),
               Args([ids |-> PyList(<<PyStr(V1)>>),
                     parts |-> PyList(<<PyStr(<<"x">>)>>)]),
               Args([ids |-> PyList(<<PyStr(V1)>>), parts |-> PyStr(SNIPPET)]),
               Args([ids |-> PyList(<<PyStr(V1)>>), parts |-> PyInt(5)]),
               Args([ids |-> PyList(<<PyStr(V1)>>),
                     parts |-> PyList(<<PyList(<<PyStr(SNIPPET)>>)>>)]),
               Args([ids |-> PyList(<<PyStr(V1)>>),
                     parts |-> PyList(<<PyStr(<<"x">>), PyList(<<>>)>>)]),
               Args([parts |-> PyList(<<PyStr(SNIPPET)>>)]) >>
      [] name = "get_transcript" ->
            << NoArgs, Args(<<>>),
               Args([videoId |-> PyStr(V1)]),
               Args([videoId |-> PyStr(<<" ">> \o V1 \o <<" ">>)]),
               Args([videoId |-> PyStr(<<>>)]),
               Args([videoId |-> PyStr(<<" ">>)]),
               Args([videoId |-> PyStr(<<"\t", "\n">>)]),
               Args([videoId |-> PyStr(<<"\t">> \o V1 \o <<"\r", "\n">>)]),
               Args([videoId |-> PyInt(5)]),
               Args([videoId |-> PyStr(V1), language |-> PyStr(ES)]),
               Args([videoId |-> PyStr(V1), language |-> PyStr(<<" ">> \o ES \o <<" ">>)]),
               Args([videoId |-> PyStr(V1), language |-> PyInt(5)]),
               Args([videoId |-> PyStr(V1), language |-> None]) >>
      [] OTHER -> << NoArgs, Args(<<>>), Args([videoId |-> PyStr(V1)]) >>

\* the requested languages of the get_transcript runs
LanguageCases ==
    << None, PyStr(<<>>), PyStr(<<" ">>), PyStr(ES), PyStr(EN), PyStr(FR),
       PyStr(<<" ">> \o ES \o <<" ">>), PyStr(<<" ">> \o FR),
       PyStr(<<"\t">> \o ES \o <<"\n">>), PyStr(<<"\n">>) >>

VideoIdCases ==
    << PyStr(V1), PyStr(<<" ">> \o V1), PyStr(<<"\t">> \o V1 \o <<"\n">>) >>

CallNames ==
    {"search_videos", "get_videos", "get_transcript", "extra_tool", "bogus"}

-----------------------------------------------------------------------------
\* State machine

Invocation(name, arguments, env, o) ==
    [name |-> name, arguments |-> arguments, env |-> env,
     state |-> o.state, stages |-> o.stages, calls |-> o.calls,
     effects |-> o.effects, raised |-> o.raised, hmsg |-> o.hmsg,
     returned |-> o.returned, result |-> o.result, error |-> o.error,
     track |-> o.track, logged |-> o.logged]

NoInvocation ==
    Invocation("", NoArgs, DefaultEnv,
               Outcome("NONE", <<>>, 0, 0, FALSE, <<>>, NoValue, NoValue, <<>>, 0,
                       <<>>))

InitWith(files, functions) ==
    /\ fs \in files
    /\ TOOL_FUNCTIONS = functions
    /\ phase = "init"
    /\ TOOL_SCHEMAS = <<>>
    /\ log = <<>>
    /\ listed = [answered |-> FALSE, raised |-> "none", tools |-> <<>>]
    /\ inv = NoInvocation

Init == InitWith([package : Docs, cwd : Docs], ShippedFunctions)

\* import of youtube_mcp_server.server: TOOL_SCHEMAS = load_tool_schemas();
\* an exception that load_tool_schemas does not catch ends the process.
ImportServer ==
    /\ phase = "init"
    /\ LET r == load_tool_schemas(fs) IN
         /\ phase' = IF r.raised = "none" THEN "serving" ELSE "crashed"
         /\ TOOL_SCHEMAS' = r.value
         /\ log' = log \o r.log
    /\ UNCHANGED <<fs, TOOL_FUNCTIONS, listed, inv>>

\* a call of load_tool_schemas() by a client of the imported module: the
\* files are read again and the errors logged again; TOOL_SCHEMAS stays.
LoadToolSchemas ==
    /\ phase = "serving"
    /\ LET r == load_tool_schemas(fs) IN
         /\ Len(log \o r.log) <= MaxLog
         /\ log' = log \o r.log
    /\ UNCHANGED <<fs, TOOL_FUNCTIONS, phase, TOOL_SCHEMAS, listed, inv>>

ListTools ==
    /\ phase = "serving"
    /\ LET r == handle_list_tools(TOOL_SCHEMAS) IN
         listed' = [answered |-> r.raised = "none", raised |-> r.raised,
                    tools |-> r.tools]
    /\ UNCHANGED <<fs, TOOL_FUNCTIONS, phase, TOOL_SCHEMAS, log, inv>>

\* one handle_call_tool run, from the request to its return or raise
CallTool(name, arguments, env) ==
    /\ phase = "serving"
    /\ inv.state = "NONE"
    /\ LET o == handle_call_tool(name, arguments, TOOL_FUNCTIONS, env) IN
         /\ Len(log \o o.logged) <= MaxLog
         /\ inv' = Invocation(name, arguments, env, o)
         /\ log' = log \o o.logged
    /\ UNCHANGED <<fs, TOOL_FUNCTIONS, phase, TOOL_SCHEMAS, listed>>

\* the response is sent and the invocation is discarded
Respond ==
    /\ inv.state # "NONE"
    /\ inv' = NoInvocation
    /\ UNCHANGED <<fs, TOOL_FUNCTIONS, phase, TOOL_SCHEMAS, log, listed>>

HandlerOf(name) ==
    IF name \in DOMAIN TOOL_FUNCTIONS THEN TOOL_FUNCTIONS[name] ELSE "none"

\* a tools/call request of a client
Call ==
    /\ phase = "serving" /\ inv.state = "NONE"
    /\ \E name \in CallNames :
         \E i \in DOMAIN ArgCases(name) :
           \E env \in Envs(HandlerOf(name)) :
             CallTool(name, ArgCases(name)[i], env)

\* a get_transcript request, over every transcript source
CallTranscript ==
    /\ phase = "serving" /\ inv.state = "NONE"
    /\ \E v \in DOMAIN VideoIdCases :
         \E l \in DOMAIN LanguageCases :
           \E x \in AllSources :
             CallTool("get_transcript",
                      Args([videoId |-> VideoIdCases[v],
                            language |-> LanguageCases[l]]),
                      Env(DefaultApi, x))

Next == ImportServer \/ LoadToolSchemas \/ ListTools \/ Call \/ Respond

Spec == Init /\ [][Next]_vars

\* get_transcript behind the dispatch, with the shipped tools.json
InitTranscript ==
    InitWith([package : {WellFormed(ShippedTools), Missing},
              cwd : {WellFormed(ShippedTools)}], ShippedFunctions)
NextTranscript == ImportServer \/ CallTranscript \/ Respond
SpecTranscript == InitTranscript /\ [][NextTranscript]_vars

-----------------------------------------------------------------------------
\* Properties

Called == inv.state # "NONE"
Terminal == inv.state \in {"DONE", "REJECTED"}
BoundArgs == IF inv.arguments.present THEN inv.arguments.kv ELSE <<>>

\* the kind of the error the caller gets, read off the message
ErrorKind ==
    IF inv.state # "REJECTED" \/ Len(inv.error) = 0 THEN "none"
    ELSE CASE inv.error[1] = "Unknown tool: " -> "UnknownTool"
           [] inv.error[1] = "Input validation failed: " -> "InputValidationFailed"
           [] inv.error[1] = "Output validation failed: " -> "OutputValidationFailed"
           [] inv.error[1] = "Tool execution error: " -> "HandlerError"
           [] OTHER -> "other"

\* the resource is missing at every location
AllMissing == fs.package.state = "missing" /\ fs.cwd.state = "missing"

\* the first location that holds the resource holds a document that does not parse
FirstMalformed ==
    \/ fs.package.state = "malformed"
    \/ fs.package.state = "missing" /\ fs.cwd.state = "malformed"

LoadFailed == AllMissing \/ FirstMalformed

\* d is the name -> contract map of a tools list: one entry per name, in the
\* order the names first appear, each the last contract listed under its name
IsMapOf(d, tools) ==
    /\ Keys(d) = {tools[i].name : i \in DOMAIN tools}
    /\ \A i, j \in DOMAIN d : d[i].name = d[j].name => i = j
    /\ \A i \in DOMAIN d :
          \E k \in DOMAIN tools :
             /\ tools[k] = d[i]
             /\ \A m \in DOMAIN tools : tools[m].name = d[i].name => m <= k
    /\ \A i, j \in DOMAIN d :
          i < j => \E k \in DOMAIN tools :
                      /\ tools[k].name = d[i].name
                      /\ \A m \in DOMAIN tools : tools[m].name = d[j].name => k < m

\* C1: a call of a tool name that is not in the schema registry ends REJECTED
\* with kind UnknownTool and no handler was invoked.
C1_UnknownToolRejected ==
    (Called /\ inv.name \notin Keys(TOOL_SCHEMAS))
        => (inv.state = "REJECTED" /\ ErrorKind = "UnknownTool" /\ inv.calls = 0)

\* C2: a call of a known tool with arguments that fail its input schema ends
\* REJECTED with kind InputValidationFailed, and the handler was not invoked
\* and sent nothing out.
C2_InvalidInputRejected ==
    (Called /\ inv.name \in Keys(TOOL_SCHEMAS) /\ inv.name \in DOMAIN TOOL_FUNCTIONS
            /\ ~validate_input_schema(inv.name, BoundArgs, TOOL_SCHEMAS))
        => (inv.state = "REJECTED" /\ ErrorKind = "InputValidationFailed"
            /\ inv.calls = 0 /\ inv.effects = 0)

\* C3: when the handler of a known tool returned a non-null result that does
\* not conform to the tool's output schema, the call ends REJECTED with kind
\* OutputValidationFailed instead of returning the result.
C3_NonconformingOutputRejected ==
    (Called /\ inv.name \in Keys(TOOL_SCHEMAS) /\ inv.calls > 0 /\ ~inv.raised
            /\ inv.returned.type = "object"
            /\ ~validate_output_schema(inv.name, inv.returned,
                                    WellFormed(TOOL_SCHEMAS)))
        => (inv.state = "REJECTED" /\ ErrorKind = "OutputValidationFailed")

\* C4: when the handler raised, the call ends REJECTED with one error that
\* carries the handler's message, and no call invokes the handler more than
\* once.
C4_HandlerErrorReportedOnce ==
    /\ inv.calls <= 1
    /\ inv.raised =>
          /\ inv.state = "REJECTED"
          /\ Len(inv.error) = 1 + Len(inv.hmsg)
          /\ SubSeq(inv.error, 2, Len(inv.error)) = inv.hmsg
          /\ inv.result = NoValue

\* C4 witness: a handler that was invoked raised with a message and the call
\* was rejected.
C4_Witness ==
    /\ inv.state = "REJECTED" /\ inv.raised /\ inv.calls = 1
    /\ Len(inv.hmsg) > 0 /\ inv.effects > 0

C6_RegistriesAgree ==
    phase = "serving" => Keys(TOOL_SCHEMAS) = DOMAIN TOOL_FUNCTIONS

\* C7: when loading the tool contract resource failed (missing everywhere, or
\* malformed), no call reaches a handler and no listTools is answered.
C7_LoadFailureIsFatal ==
    LoadFailed => (phase # "serving" /\ inv.calls = 0 /\ ~listed.answered)

\* a record of a failed load
LoadError(rec) == rec.msg \in {NotFoundLog.msg, "Error parsing tools.json"}

\* C8: load takes the primary location's document when it is well-formed;
\* with the primary missing and the secondary well-formed it returns the
\* secondary's name -> contract map; it fails for absence exactly when the
\* resource is missing at both locations.
C8_FallbackToSecondary ==
    phase # "init" =>
        /\ fs.package.state = "ok" =>
              (phase = "serving" /\ IsMapOf(TOOL_SCHEMAS, fs.package.tools))
        /\ (fs.package.state = "missing" /\ fs.cwd.state = "ok") =>
              (phase = "serving" /\ IsMapOf(TOOL_SCHEMAS, fs.cwd.tools)
               /\ \A i \in DOMAIN log : ~LoadError(log[i]))
        /\ (\E i \in DOMAIN log : log[i].msg = NotFoundLog.msg) <=> AllMissing

\* C8 witness: the package copy is missing, the working directory holds a
\* document with tools, and the registry was loaded from it.
C8_Witness ==
    /\ phase = "serving"
    /\ fs.package.state = "missing" /\ fs.cwd.state = "ok"
    /\ Len(fs.cwd.tools) > Len(TOOL_SCHEMAS) /\ Len(TOOL_SCHEMAS) > 1

\* C9 as stated: the value load returns for a malformed resource is never the
\* value it returns for a missing resource.
C9_FailuresReturnDifferently ==
    (phase # "init" /\ FirstMalformed)
        => TOOL_SCHEMAS # load_tool_schemas([package |-> Missing, cwd |-> Missing]).value

\* A get_transcript call that listed the candidate tracks and fetched the
\* track it selected, if it selected one.
Selected ==
    /\ Called /\ inv.name = "get_transcript" /\ inv.calls = 1
    /\ inv.env.src.list = "ok" /\ inv.env.src.fetch = "ok"
    /\ ~Truthy(Arg(BoundArgs, "language")) \/ IsStr(Arg(BoundArgs, "language"))
    /\ BlankCheck(Arg(BoundArgs, "videoId")) = "ok"

\* The priority rules over the candidate list, for the requested code `want`
\* (rule 1 is skipped when `blank`): t is the index of the selected track,
\* 0 for none.
FollowsPriority(tracks, blank, want, t) ==
    LET has(c) == \E i \in DOMAIN tracks : tracks[i].languageCode = c
        manual == {i \in DOMAIN tracks : ~tracks[i].isGenerated}
    IN IF ~blank /\ has(want)
       THEN t \in DOMAIN tracks /\ tracks[t].languageCode = want
       ELSE IF has(EN)
       THEN t \in DOMAIN tracks /\ tracks[t].languageCode = EN
       ELSE IF manual # {}
       THEN t \in manual /\ \A i \in manual : t <= i
       ELSE IF tracks # <<>> THEN t = 1
       ELSE t = 0

RequestedBlank ==
    LET l == Arg(BoundArgs, "language") IN ~Truthy(l) \/ Strip(l.val) = <<>>

\* C10 as stated: the selected track follows the priority rules, rule 1
\* matching languageCode against the requested code as it was given.
C10_PriorityAsGiven ==
    Selected =>
        FollowsPriority(inv.env.src.tracks, RequestedBlank,
                        IF RequestedBlank THEN <<>>
                        ELSE Arg(BoundArgs, "language").val,
                        inv.track)

\* C10 amended: the selected track follows the priority rules, rule 1
\* matching languageCode against the requested code with the surrounding
\* whitespace removed; the result names the language of the selected track.
C10_PriorityTrimmed ==
    Selected =>
        /\ FollowsPriority(inv.env.src.tracks, RequestedBlank,
                           IF RequestedBlank THEN <<>>
                           ELSE Strip(Arg(BoundArgs, "language").val),
                           inv.track)
        /\ inv.state = "DONE"
        /\ inv.result.available = (inv.track # 0)
        /\ inv.track # 0 =>
              inv.result.language =
                  PyStr(inv.env.src.tracks[inv.track].languageCode)

\* C10 witness: Spanish is requested with blanks around the code, the list
\* holds a generated Japanese, a manual English and a generated Spanish track,
\* and the Spanish one was selected.
C10_Witness ==
    /\ Selected /\ inv.state = "DONE"
    /\ Arg(BoundArgs, "language") = PyStr(<<" ">> \o ES \o <<" ">>)
    /\ inv.env.src.tracks = <<Track(JA, TRUE), Track(EN, FALSE), Track(ES, TRUE)>>
    /\ inv.track = 3 /\ inv.result.language = PyStr(ES)

\* A get_transcript call with a non-blank videoId and a language that is None
\* or a str: the handler got as far as listing the tracks.
Listing ==
    /\ Called /\ inv.name = "get_transcript" /\ inv.calls = 1
    /\ BlankCheck(Arg(BoundArgs, "videoId")) = "ok"
    /\ ~Truthy(Arg(BoundArgs, "language")) \/ IsStr(Arg(BoundArgs, "language"))

NoTranscript == {"TranscriptsDisabled", "NoTranscriptFound"}

\* listing the tracks signalled e
ListSignals(E) == inv.env.src.list \in E

\* the tracks were listed, one was selected, and fetching its cues signalled e
FetchSignals(E) ==
    /\ inv.env.src.list = "ok" /\ inv.env.src.tracks # <<>>
    /\ inv.env.src.fetch \in E

\* the tracks were listed and a find_transcript call of the selection found
\* no track of its language ("no transcript found")
FindSignals ==
    /\ inv.env.src.list = "ok"
    /\ \/ ~RequestedBlank /\
            find_transcript(inv.env.src.tracks,
                            Strip(Arg(BoundArgs, "language").val)) = 0
       \/ RequestedBlank /\ find_transcript(inv.env.src.tracks, EN) = 0

NoTrackResult ==
    /\ inv.state = "DONE" /\ ~inv.raised
    /\ inv.result.available = FALSE
    /\ inv.result.language = None
    /\ inv.result.transcript = <<>>

\* C11 as stated: an empty track list, or "transcripts disabled" / "no
\* transcript found" signalled while listing, finding or fetching, gives the
\* result {available: false, language: null, transcript: []} and no error.
C11_NoTranscriptAtAnyStep ==
    (Listing /\ (\/ inv.env.src.list = "ok" /\ inv.env.src.tracks = <<>>
                 \/ ListSignals(NoTranscript)
                 \/ FindSignals
                 \/ FetchSignals(NoTranscript)))
        => NoTrackResult

\* C11 amended: an empty track list, or "transcripts disabled" / "no
\* transcript found" signalled while listing the tracks or fetching the cues,
\* gives the result {available: false, language: null, transcript: []} and
\* no error; "no transcript found" from finding a track of one language only
\* moves the selection on to its next rule.
C11_NoTranscriptListOrFetch ==
    /\ (Listing /\ (\/ inv.env.src.list = "ok" /\ inv.env.src.tracks = <<>>
                    \/ ListSignals(NoTranscript)
                    \/ FetchSignals(NoTranscript)))
          => NoTrackResult
    /\ (Listing /\ FindSignals /\ inv.env.src.tracks # <<>>
                /\ inv.env.src.fetch = "ok")
          => (inv.state = "DONE" /\ inv.result.available)

\* C11 witness: a track was selected and fetching its cues signalled "no
\* transcript found"; the call returned the result without a transcript.
C11_Witness ==
    /\ Listing /\ FetchSignals({"NoTranscriptFound"}) /\ NoTrackResult
    /\ inv.effects = 2

\* C12: "video unavailable" signalled while listing or fetching makes
\* get_transcript raise an error that reaches the caller, and no result
\* (with available = false or otherwise) is returned.
C12_VideoUnavailableRaises ==
    (Listing /\ (ListSignals({"VideoUnavailable"})
                 \/ FetchSignals({"VideoUnavailable"})))
        => /\ inv.state = "REJECTED" /\ inv.raised
           /\ inv.result = NoValue /\ inv.returned = NoValue
           /\ inv.hmsg = <<"Video ", Strip(Arg(BoundArgs, "videoId").val),
                           " is unavailable or does not exist">>
           /\ ErrorKind = "HandlerError"

\* C12 witness: a track was selected, fetching its cues signalled "video
\* unavailable", and the call was rejected.
C12_Witness ==
    /\ Listing /\ FetchSignals({"VideoUnavailable"})
    /\ inv.state = "REJECTED" /\ inv.effects = 2

\* C13: handle_list_tools never fails, and an answer it gave is the answer
\* it would give now: the registry does not change after the load.
C13_ListToolsNeverFails ==
    /\ listed.raised = "none"
    /\ listed.answered => listed.tools = handle_list_tools(TOOL_SCHEMAS).tools

\* the stages of the claimed pipeline among those the call went through
Pipeline ==
    SelectSeq(inv.stages,
              LAMBDA st : st \in {"lookup", "input_validation", "handler",
                                  "output_validation"})

\* C14: a call whose handler returned or raised is in one terminal state,
\* DONE or REJECTED; DONE comes only after contract lookup, input validation,
\* handler execution and output validation, in this order; the handler runs
\* only on arguments that passed input validation; on DONE the result is the
\* handler's, unchanged.
C14_ValidatedPipeline ==
    /\ inv.calls > 0 => Terminal
    /\ inv.state = "DONE" =>
          /\ Pipeline = <<"lookup", "input_validation", "handler",
                          "output_validation">>
          /\ inv.result = inv.returned
    /\ inv.calls > 0 =>
          /\ \E i, j \in DOMAIN inv.stages :
                /\ i < j
                /\ inv.stages[i] = "input_validation"
                /\ inv.stages[j] = "handler"
          /\ inv.name \in Keys(TOOL_SCHEMAS) =>
                validate_input_schema(inv.name, BoundArgs, TOOL_SCHEMAS)

\* get_transcript returned a value to the caller.
TranscriptReturned ==
    /\ Called /\ inv.name = "get_transcript" /\ inv.calls = 1
    /\ inv.state = "DONE" /\ ~inv.raised

\* the entries are the cues, one for one and in order, each with text, start
\* and duration
EntriesOf(entries, cues) ==
    /\ Len(entries) = Len(cues)
    /\ \A i \in DOMAIN cues :
          /\ DOMAIN entries[i] = {"text", "start", "duration"}
          /\ entries[i].text = cues[i].text
          /\ entries[i].start.num = cues[i].start.num
          /\ entries[i].duration.num = cues[i].duration.num

\* C15: in every value get_transcript returns, available is true exactly
\* when a track was selected and its fetch completed; then language is the
\* selected track's languageCode and transcript has one {text, start,
\* duration} entry per fetched cue, in order; when available is false,
\* language is null and transcript is empty; videoId is the trimmed input id.
C15_ResultShape ==
    TranscriptReturned =>
        LET res == inv.result
            src == inv.env.src
        IN /\ res.videoId = Strip(Arg(BoundArgs, "videoId").val)
           /\ res.available <=>
                 (src.list = "ok" /\ src.tracks # <<>> /\ src.fetch = "ok")
           /\ res.available =>
                 /\ inv.track \in DOMAIN src.tracks
                 /\ res.language = PyStr(src.tracks[inv.track].languageCode)
                 /\ EntriesOf(res.transcript, src.cues)
           /\ ~res.available =>
                 (res.language = None /\ res.transcript = <<>>)

\* C15 witness: a padded videoId and a padded language; the track of the
\* language was fetched and the result holds its two cues.
C15_Witness ==
    /\ TranscriptReturned /\ inv.result.available
    /\ Arg(BoundArgs, "videoId") = PyStr(<<" ">> \o V1)
    /\ Arg(BoundArgs, "language") = PyStr(<<" ">> \o ES \o <<" ">>)
    /\ inv.result.videoId = V1
    /\ inv.result.language = PyStr(ES)
    /\ Len(inv.result.transcript) = 2
    /\ inv.result.transcript[2].text = "world"

====
